---- MODULE Spec2Model ----
(***************************************************************************)
(* Model of fo_msg_format: the MSG tokenizer (src/src/lexer.rs) and the    *)
(* MsgDictionary with its builder (src/src/lib.rs).                        *)
(*                                                                         *)
(* Inputs are byte sequences (sequences of integers 0..255).  The type u32 *)
(* is modelled with U32Bits bits, so that u32::MAX = 2^U32Bits - 1 is a    *)
(* value the model can reach; every use of u32 (the parsed index, the      *)
(* sub-index, the bound of the range queries) is scaled the same way.      *)
(***************************************************************************)
EXTENDS Integers, Sequences, FiniteSets, TLC

\* ------------------------------------------------------------------ bounds
U32Bits == 1
MaxPieces == 4
MaxLines == 4

\* u32::MAX, as used in the range queries of lib.rs and by the index parser
U32_MAX == 2^U32Bits - 1

\* tokenize_msg: .take(20)
TAIL_TAKE == 20

\* ------------------------------------------------------------- characters
\* code of an ASCII character written in the source or in an input
C(s) ==
    CASE s = "{" -> 123 [] s = "}" -> 125 [] s = "#" -> 35 [] s = "/" -> 47
      [] s = " " -> 32 [] s = "\t" -> 9 [] s = "\n" -> 10 [] s = "\r" -> 13
      [] s = "0" -> 48 [] s = "1" -> 49 [] s = "2" -> 50 [] s = "3" -> 51
      [] s = "4" -> 52 [] s = "5" -> 53 [] s = "6" -> 54 [] s = "7" -> 55
      [] s = "8" -> 56 [] s = "9" -> 57 [] s = "a" -> 97 [] s = "s" -> 115
      [] s = "c" -> 99 [] s = "x" -> 120

Min(a, b) == IF a < b THEN a ELSE b

Take(s, n) == SubSeq(s, 1, Min(n, Len(s)))

Drop(s, n) == SubSeq(s, n + 1, Len(s))

IsPrefix(t, s) == Len(t) <= Len(s) /\ SubSeq(s, 1, Len(t)) = t

\* Option<T>
None == [some |-> FALSE]

Some(x) == [some |-> TRUE, v |-> x]

\* --------------------------------------------------- parser results (nom)
\* IResult: Ok((rest, out)), Err(Err::Error) (recoverable), Err(Err::Failure)
POk(rest, out) == [kind |-> "Ok", rest |-> rest, out |-> out]

PError == [kind |-> "Error"]

PFailure == [kind |-> "Failure"]

\* In the parsers below, CHOOSE x \in {F(a) : a \in {e}} : TRUE is F(e) with e
\* evaluated once: it names the result a of running a parser before the code
\* inspects it.  A sequence of parsers (tuple, preceded, delimited, `?`) runs
\* the next parser on a.rest when a is Ok and returns any error as it is.

\* cut: a recoverable error becomes a failure
cut(r) == CHOOSE x \in {IF a.kind = "Error" THEN PFailure ELSE a : a \in {r}} : TRUE

\* opt: a recoverable error becomes Ok(None) on the untouched input
opt(i, r) ==
    CHOOSE x \in {IF a.kind = "Error" THEN POk(i, None)
                  ELSE IF a.kind = "Ok" THEN POk(a.rest, Some(a.out))
                  ELSE a : a \in {r}} : TRUE

\* alt of two parsers: the second is used when the first gives Err::Error
alt(r, other) ==
    CHOOSE x \in {IF a.kind = "Error" THEN other ELSE a : a \in {r}} : TRUE

\* char(c)
char(c, i) == IF Len(i) > 0 /\ i[1] = c THEN POk(Tail(i), c) ELSE PError

\* tag(t)
tag(t, i) == IF IsPrefix(t, i) THEN POk(Drop(i, Len(t)), t) ELSE PError

\* the least element of a non-empty set of numbers
Least(ks) == CHOOSE k \in ks : \A o \in ks : k <= o

\* split i after its first n elements
SplitAt(i, n) == POk(Drop(i, n), Take(i, n))

\* take_while: split i after its longest prefix of elements in keep
take_while(keep, i) ==
    CHOOSE x \in {IF stop = {} THEN SplitAt(i, Len(i)) ELSE SplitAt(i, Least(stop) - 1)
                  : stop \in {{k \in 1..Len(i) : i[k] \notin keep}}} : TRUE

\* take_till: split i before its first element in stops
take_till(stops, i) ==
    CHOOSE x \in {IF stop = {} THEN SplitAt(i, Len(i)) ELSE SplitAt(i, Least(stop) - 1)
                  : stop \in {{k \in 1..Len(i) : i[k] \in stops}}} : TRUE

\* space0: zero or more spaces and tabs, never fails
space0(i) == take_while({C(" "), C("\t")}, i)

RECURSIVE DecimalValue(_, _)
DecimalValue(ds, acc) ==
    IF Len(ds) = 0 THEN acc
    ELSE DecimalValue(Tail(ds), acc * 10 + (ds[1] - C("0")))

\* unsigned_number::<u32>: one or more digits whose value fits the type
unsigned_number(i) ==
    CHOOSE x \in
        { IF Len(d.out) = 0 \/ DecimalValue(d.out, 0) > U32_MAX THEN PError
          ELSE POk(d.rest, DecimalValue(d.out, 0))
          : d \in {take_while(C("0")..C("9"), i)} } : TRUE

\* not_closing_curly: everything up to the next '}' (or the end), never fails
not_closing_curly(i) == take_till({C("}")}, i)

\* the parsers that appear between curly braces in lexer.rs, by name
Inner(p, i) ==
    CASE p = "unsigned_number" -> unsigned_number(i)
      [] p = "cut(unsigned_number)" -> cut(unsigned_number(i))
      [] p = "not_closing_curly" -> not_closing_curly(i)

\* curly_delimited(p) = delimited(char('{'), p, char('}'))
curly_delimited(p, i) ==
    CHOOSE x \in
        { IF a.kind # "Ok" THEN a ELSE
          CHOOSE y \in
              { IF b.kind # "Ok" THEN b ELSE
                CHOOSE z \in
                    { IF c.kind # "Ok" THEN c ELSE POk(c.rest, b.out)
                      : c \in {char(C("}"), b.rest)} } : TRUE
                : b \in {Inner(p, a.rest)} } : TRUE
          : a \in {char(C("{"), i)} } : TRUE

\* optional_text: leading blanks skipped, then the rest of the physical line
optional_text(i) ==
    CHOOSE x \in {take_till({C("\n"), C("\r")}, s.rest) : s \in {space0(i)}} : TRUE

\* t_rn: CR? LF
t_rn(i) == alt(tag(<<C("\r"), C("\n")>>, i), tag(<<C("\n")>>, i))

\* ------------------------------------------------------------ lexer.rs
\* comment: optional blanks, '#' or "//", then the text of the line
comment(i) ==
    CHOOSE x \in
        { CHOOSE y \in
              { IF m.kind # "Ok" THEN m ELSE optional_text(m.rest)
                : m \in {alt(char(C("#"), s.rest), tag(<<C("/"), C("/")>>, s.rest))} } : TRUE
          : s \in {space0(i)} } : TRUE

Entry(index, secondary, value, cmt) ==
    [index |-> index, secondary |-> secondary, value |-> value, comment |-> cmt]

\* _entry_with_tuple: tuple((..)) of the four parsers, no cut anywhere
_entry_with_tuple(i) ==
    CHOOSE x \in
        { IF a.kind # "Ok" THEN a ELSE
          CHOOSE y \in
              { IF b.kind # "Ok" THEN b ELSE
                CHOOSE z \in
                    { IF c.kind # "Ok" THEN c ELSE
                      CHOOSE w \in
                          { IF d.kind # "Ok" THEN d
                            ELSE POk(d.rest, Entry(a.out, b.out, c.out, d.out))
                            : d \in {opt(c.rest, comment(c.rest))} } : TRUE
                      : c \in {curly_delimited("not_closing_curly", b.rest)} } : TRUE
                : b \in {curly_delimited("not_closing_curly", a.rest)} } : TRUE
          : a \in {curly_delimited("unsigned_number", i)} } : TRUE

\* _entry_with_macro with the two text fields assigned in the wrong order
_entry_with_macro_swapped(i) ==
    CHOOSE x \in
        { IF index.kind # "Ok" THEN index ELSE
          CHOOSE y \in
              { IF secondary.kind # "Ok" THEN secondary ELSE
                CHOOSE z \in
                    { IF value.kind # "Ok" THEN value ELSE
                      CHOOSE w \in
                          { IF cmt.kind # "Ok" THEN cmt
                            ELSE POk(cmt.rest,
                                     Entry(index.out, value.out, secondary.out, cmt.out))
                            : cmt \in {opt(value.rest, comment(value.rest))} } : TRUE
                      : value \in {curly_delimited("not_closing_curly", secondary.rest)} } : TRUE
                : secondary \in {curly_delimited("not_closing_curly", index.rest)} } : TRUE
          : index \in {curly_delimited("unsigned_number", i)} } : TRUE

\* _entry_with_macro: parse_struct! runs the field parsers in order, each on
\* what the one before left, and builds the struct from their outputs
_entry_with_macro(i) ==
    CHOOSE x \in
        { IF index.kind # "Ok" THEN index ELSE
          CHOOSE y \in
              { IF secondary.kind # "Ok" THEN secondary ELSE
                CHOOSE z \in
                    { IF value.kind # "Ok" THEN value ELSE
                      CHOOSE w \in
                          { IF cmt.kind # "Ok" THEN cmt
                            ELSE POk(cmt.rest,
                                     Entry(index.out, secondary.out, value.out, cmt.out))
                            : cmt \in {opt(value.rest, comment(value.rest))} } : TRUE
                      : value \in {curly_delimited("not_closing_curly", secondary.rest)} } : TRUE
                : secondary \in {curly_delimited("not_closing_curly", index.rest)} } : TRUE
          : index \in {curly_delimited("unsigned_number", i)} } : TRUE

\* apply(&mut i, p): run p on i and advance i
apply(r) == r

\* cut_apply(&mut i, p) = apply(&mut i, cut(p))
cut_apply(r) == apply(cut(r))

\* entry_with_apply: cut on the number inside the first braces, then cut on
\* each of the following three parsers as a whole
entry_with_apply(i) ==
    CHOOSE x \in
        { IF index.kind # "Ok" THEN index ELSE
          CHOOSE y \in
              { IF secondary.kind # "Ok" THEN secondary ELSE
                CHOOSE z \in
                    { IF value.kind # "Ok" THEN value ELSE
                      CHOOSE w \in
                          { IF cmt.kind # "Ok" THEN cmt
                            ELSE POk(cmt.rest,
                                     Entry(index.out, secondary.out, value.out, cmt.out))
                            : cmt \in {cut_apply(opt(value.rest, comment(value.rest)))} } : TRUE
                      : value \in
                            {cut_apply(curly_delimited("not_closing_curly", secondary.rest))} } : TRUE
                : secondary \in
                      {cut_apply(curly_delimited("not_closing_curly", index.rest))} } : TRUE
          : index \in {apply(curly_delimited("cut(unsigned_number)", i))} } : TRUE

LineComment(text) == [t |-> "Comment", text |-> text]

LineEntry(e) == [t |-> "Entry", entry |-> e]

LineBreak == [t |-> "Break"]

\* map(comment, Line::Comment)
CommentLine(i) ==
    CHOOSE x \in {IF a.kind # "Ok" THEN a ELSE POk(a.rest, LineComment(a.out))
                  : a \in {comment(i)}} : TRUE

\* map(preceded(space0, entry_with_apply), Line::Entry)
EntryLine(i) ==
    CHOOSE x \in {IF a.kind # "Ok" THEN a ELSE POk(a.rest, LineEntry(a.out))
                  : a \in {entry_with_apply(space0(i).rest)}} : TRUE

\* map(space0, |_| Line::Break)
BreakLine(i) == POk(space0(i).rest, LineBreak)

\* line: alt of the three kinds of line, in this order; alt moves to the
\* next alternative on Err::Error only, an Err::Failure is returned at once
line(i) == alt(CommentLine(i), alt(EntryLine(i), BreakLine(i)))

\* the loop of separated_list_first_unchecked: separator, then element; an
\* Error of either ends the list before the separator
RECURSIVE SeparatedTail(_, _)
SeparatedTail(i, res) ==
    CHOOSE x \in
        { IF s.kind = "Failure" THEN s
          ELSE IF s.kind = "Error" THEN POk(i, res)
          ELSE CHOOSE y \in
                   { IF e.kind = "Failure" THEN e
                     ELSE IF e.kind = "Error" THEN POk(i, res)
                     ELSE SeparatedTail(e.rest, Append(res, e.out))
                     : e \in {line(s.rest)} } : TRUE
          : s \in {t_rn(i)} } : TRUE

\* msg: separated_list_first_unchecked(t_rn, line) mapped into Msg { lines }
msg(i) ==
    CHOOSE x \in
        { IF e.kind = "Failure" THEN e
          ELSE IF e.kind = "Error" THEN POk(i, <<>>)
          ELSE SeparatedTail(e.rest, <<e.out>>)
          : e \in {line(i)} } : TRUE

ROk(v) == [ok |-> TRUE, v |-> v]

RErr(e) == [ok |-> FALSE, e |-> e]

\* tokenize_msg with the whole unconsumed input in the error text
tokenize_msg_whole_tail(input, exhaustive) ==
    CHOOSE x \in
        { IF r.kind # "Ok" THEN RErr([what |-> "parse"])
          ELSE IF ~exhaustive \/ Len(r.rest) = 0 THEN ROk(r.out)
          ELSE RErr([what |-> "exhaust", tail |-> r.rest])
          : r \in {msg(input)} } : TRUE

\* tokenize_msg
tokenize_msg(input, exhaustive) ==
    CHOOSE x \in
        { IF r.kind # "Ok" THEN RErr([what |-> "parse"])
          ELSE IF ~exhaustive \/ Len(r.rest) = 0 THEN ROk(r.out)
          ELSE RErr([what |-> "exhaust", tail |-> Take(r.rest, TAIL_TAKE)])
          : r \in {msg(input)} } : TRUE

\* the bytes of a text given as a tuple of one-character strings
S(str) == [k \in 1..Len(str) |-> C(str[k])]

\* --------------------------------------------------------------- lib.rs
\* enum MsgLine { String(Box<str>), Bytes(Box<[u8]>) }; a str is held as its
\* UTF-8 bytes
MsgString(text) == [variant |-> "String", data |-> text]

MsgBytes(bytes) == [variant |-> "Bytes", data |-> bytes]

\* MsgLine::string
string(l) ==
    CASE l.variant = "String" -> Some(l.data)
      [] l.variant = "Bytes" -> None

\* MsgLine::bytes
bytes(l) ==
    CASE l.variant = "String" -> l.data
      [] l.variant = "Bytes" -> l.data

\* MsgDictionary::new: index_to_line is a map from (u32, u32) to MsgLine
new == [k \in {} |-> None]

\* the order of the keys (u32, u32) in the BTreeMap: lexicographic
KeyLess(a, b) == a[1] < b[1] \/ (a[1] = b[1] /\ a[2] < b[2])

\* BTreeMap::range(lo..hi): the keys k with lo <= k < hi
range(d, lo, hi) == {k \in DOMAIN d : ~KeyLess(k, lo) /\ KeyLess(k, hi)}

\* the keys of a set in ascending order, as the map iterates them
RECURSIVE Ascending(_)
Ascending(ks) ==
    IF ks = {} THEN <<>>
    ELSE LET m == CHOOSE k \in ks : \A o \in ks : ~KeyLess(o, k)
         IN  <<m>> \o Ascending(ks \ {m})

\* Iterator::last
last(seq) == IF Len(seq) = 0 THEN None ELSE Some(seq[Len(seq)])

\* Option::get of the map
get(d, k) == IF k \in DOMAIN d THEN Some(d[k]) ELSE None

\* get_first_string answering with the first text slot of the index
get_first_string_first_text(d, index) ==
    LET texts == {k \in DOMAIN d : k[1] = index /\ d[k].variant = "String"} IN
    IF texts = {} THEN None
    ELSE Some(d[CHOOSE k \in texts : \A o \in texts : ~KeyLess(o, k)].data)

\* MsgDictionary::get_first_string
get_first_string(d, index) ==
    LET slot == get(d, <<index, 0>>) IN
    IF slot.some THEN string(slot.v) ELSE None

\* MsgDictionary::get_first_bytes
get_first_bytes(d, index) ==
    LET slot == get(d, <<index, 0>>) IN
    IF slot.some THEN Some(bytes(slot.v)) ELSE None

\* filter_map over a sequence of keys with the closure of get_all_strings
RECURSIVE FilterStrings(_, _)
FilterStrings(d, ks) ==
    IF Len(ks) = 0 THEN <<>>
    ELSE LET t == string(d[ks[1]]) IN
         (IF t.some THEN <<(<<ks[1][2], t.v>>)>> ELSE <<>>)
             \o FilterStrings(d, Tail(ks))

\* MsgDictionary::get_all_strings
get_all_strings(d, index) ==
    FilterStrings(d, Ascending(range(d, <<index, 0>>, <<index, U32_MAX>>)))

\* filter_map over a sequence of keys with the closure of iter_first_strings
RECURSIVE FilterFirst(_, _)
FilterFirst(d, ks) ==
    IF Len(ks) = 0 THEN <<>>
    ELSE LET t == string(d[ks[1]]) IN
         (IF ks[1][2] = 0 /\ t.some THEN <<(<<ks[1][1], t.v>>)>> ELSE <<>>)
             \o FilterFirst(d, Tail(ks))

\* MsgDictionary::iter_first_strings
iter_first_strings(d) == FilterFirst(d, Ascending(DOMAIN d))

\* insert with the range query over the whole map instead of one index
insert_any_index(d, index, value) ==
    LET l == last(Ascending(DOMAIN d))
        sub_index == IF l.some THEN (l.v[2] + 1) % (U32_MAX + 1) ELSE 0
        key == <<index, sub_index>>
    IN  [sub_index |-> sub_index,
         old |-> get(d, key),
         dict |-> [k \in DOMAIN d \cup {key} |-> IF k = key THEN value ELSE d[k]]]

\* MsgDictionary::insert up to the assertion: the sub-index chosen, the map
\* after BTreeMap::insert (which replaces) and the value it returned
insert(d, index, value) ==
    LET l == last(Ascending(range(d, <<index, 0>>, <<index, U32_MAX>>)))
        sub_index == IF l.some THEN l.v[2] + 1 ELSE 0
        key == <<index, sub_index>>
    IN  [sub_index |-> sub_index,
         old |-> get(d, key),
         dict |-> [k \in DOMAIN d \cup {key} |-> IF k = key THEN value ELSE d[k]]]

\* ------------------------------------------------------------ converters
Cont(b) == b >= 128 /\ b <= 191

\* std::str::from_utf8(..).is_ok()
RECURSIVE Utf8Valid(_)
Utf8Valid(b) ==
    LET n == Len(b)
        Conts(from, to) == \A k \in from..to : Cont(b[k])
    IN  IF n = 0 THEN TRUE
        ELSE IF b[1] < 128 THEN Utf8Valid(Drop(b, 1))
        ELSE IF b[1] >= 194 /\ b[1] <= 223
             THEN n >= 2 /\ Cont(b[2]) /\ Utf8Valid(Drop(b, 2))
        ELSE IF b[1] >= 224 /\ b[1] <= 239
             THEN /\ n >= 3
                  /\ Conts(2, 3)
                  /\ (b[1] = 224 => b[2] >= 160)
                  /\ (b[1] = 237 => b[2] <= 159)
                  /\ Utf8Valid(Drop(b, 3))
        ELSE IF b[1] >= 240 /\ b[1] <= 244
             THEN /\ n >= 4
                  /\ Conts(2, 4)
                  /\ (b[1] = 240 => b[2] >= 144)
                  /\ (b[1] = 244 => b[2] <= 143)
                  /\ Utf8Valid(Drop(b, 4))
        ELSE FALSE

\* the closure of parse_msg
Utf8Converter(b) == IF Utf8Valid(b) THEN MsgString(b) ELSE MsgBytes(b)

\* windows-1251, bytes 0x80..0xBF; 0 marks the one unmapped byte, 0x98
Cp1251High ==
    << 1026, 1027, 8218, 1107, 8222, 8230, 8224, 8225,
       8364, 8240, 1033, 8249, 1034, 1036, 1035, 1039,
       1106, 8216, 8217, 8220, 8221, 8226, 8211, 8212,
       0,    8482, 1113, 8250, 1114, 1116, 1115, 1119,
       160,  1038, 1118, 1032, 164,  1168, 166,  167,
       1025, 169,  1028, 171,  172,  173,  174,  1031,
       176,  177,  1030, 1110, 1169, 181,  182,  183,
       1105, 8470, 1108, 187,  1112, 1029, 1109, 1111 >>

\* the code point a windows-1251 byte decodes to, 0 when it has none
Cp1251CodePoint(b) ==
    IF b < 128 THEN b
    ELSE IF b >= 192 THEN 1040 + (b - 192)
    ELSE Cp1251High[b - 127]

\* the UTF-8 encoding of a code point of the basic plane
Utf8Encode(cp) ==
    IF cp < 128 THEN <<cp>>
    ELSE IF cp < 2048 THEN <<192 + (cp \div 64), 128 + (cp % 64)>>
    ELSE <<224 + (cp \div 4096), 128 + ((cp \div 64) % 64), 128 + (cp % 64)>>

RECURSIVE Cp1251Text(_)
Cp1251Text(b) ==
    IF Len(b) = 0 THEN <<>>
    ELSE LET cp == Cp1251CodePoint(b[1]) IN
         Utf8Encode(IF cp = 0 THEN 65533 ELSE cp) \o Cp1251Text(Tail(b))

\* WINDOWS_1251.decode(bytes) on input that carries no byte order mark: the
\* text (unmapped bytes replaced by U+FFFD) and had_errors
decode(b) ==
    [cow |-> Cp1251Text(b),
     had_errors |-> \E k \in 1..Len(b) : Cp1251CodePoint(b[k]) = 0]

\* the closure of parse_cp1251_file
Cp1251Converter(b) ==
    LET d == decode(b) IN
    IF d.had_errors THEN MsgString(d.cow) ELSE MsgBytes(b)

\* line_converter, by the entry point that supplies it
line_converter(conv, b) ==
    CASE conv = "parse_msg" -> Utf8Converter(b)
      [] conv = "parse_cp1251_file" -> Cp1251Converter(b)

\* ---------------------------------------------------------- state machine
VARIABLES
    input,      \* the bytes handed to the tokenizer or to parse_msg_ext
    npieces,    \* how many pieces the input was assembled from
    conv,       \* the entry point called, which fixes line_converter
    pc,         \* "build", "lexed", "loop", "done" or "dict"
    tok,        \* parse_msg_ext: the result of tokenize_msg(input, true)
    pos,        \* parse_msg_ext: the next element of msg.lines (from 1)
    dict,       \* the MsgDictionary (index_to_line)
    calls,      \* per primary index, the number of insert calls made
    panic,      \* "none", "secondary" (lib.rs panic!) or "assert" (assert_eq!)
    converted,  \* the values line_converter was called on, in order
    result,     \* what parse_msg_ext returned, None until it returns
    ret         \* what the last call of any other function returned

vars == <<input, npieces, conv, pc, tok, pos, dict, calls, panic, converted,
          result, ret>>

\* every value of u32
U32 == 0..U32_MAX

\* the primary indices used when insert is called directly
DictIndices == {0, U32_MAX}

\* the values used when insert is called directly
DictValues == {MsgString(S(<<"a">>)), MsgBytes(<<152>>)}

\* insert calls made in one run: enough to go once past the last sub-index
MaxInserts == U32_MAX + 2

\* the decimal digits of n
RECURSIVE Decimal(_)
Decimal(n) ==
    IF n < 10 THEN <<C("0") + n>> ELSE Decimal(n \div 10) \o <<C("0") + (n % 10)>>

\* pieces of lexer inputs: an index group without its closing brace, the
\* greatest index with its braces, fields, comment openers, separators
P_OPEN0 == S(<<"{", "0">>)

P_MAX == S(<<"{">>) \o Decimal(U32_MAX) \o S(<<"}">>)

P_CLOSE == S(<<"}">>)

P_EMPTY == S(<<"{", "}">>)

P_FIELD == S(<<"{", "a", "\n", " ">>)

P_HASH == S(<<"#", "c">>)

P_LF == S(<<"\n">>)

P_SP == S(<<" ">>)

P_NINE == S(<<"9">>)

P_JUNK == S(<<"x", "x", "x", "x", "x", "x", "x", "x", "x", "x", "x">>)

P_SLASHES == S(<<"/", "/">>)

P_CRLF == S(<<"\r", "\n">>)

\* lines of documents: 0xD0 0x90 is one character in UTF-8 and two in
\* windows-1251; 0x98 is malformed UTF-8 and unmapped in windows-1251
L_TEXT == S(<<"{", "0", "}", "{", "}", "{">>) \o <<208, 144>> \o S(<<"}">>)

L_RAW == S(<<" ", "{">>) \o Decimal(U32_MAX) \o S(<<"}", "{", "}", "{">>) \o <<152>> \o S(<<"}", " ", "#", "c">>)

L_SECONDARY == S(<<"{">>) \o Decimal(U32_MAX) \o S(<<"}", "{", "s", "}", "{", "a", "}">>)

L_COMMENT == S(<<"#", "c">>)

L_BLANK == <<>>

L_TRAILING == S(<<"{", "0", "}", "{", "}", "{", "a", "}", "x", "x", "x", "x", "x", "x", "x", "x", "x", "x", "x">>)

\* the pieces an input of the lexer is assembled from
Pieces ==
    { P_OPEN0, P_MAX, P_CLOSE, P_EMPTY, P_FIELD, P_HASH, P_LF, P_SP, P_NINE,
      P_JUNK, P_SLASHES, P_CRLF }

\* the lines a document of parse_msg_ext is assembled from; the entries use
\* the primary indices 0 and u32::MAX
Lines == {L_TEXT, L_RAW, L_SECONDARY, L_COMMENT, L_BLANK, L_TRAILING}

Idle ==
    /\ input = <<>>
    /\ npieces = 0
    /\ conv = "none"
    /\ tok = None
    /\ pos = 0
    /\ dict = new
    /\ calls = [p \in U32 |-> 0]
    /\ panic = "none"
    /\ converted = <<>>
    /\ result = None
    /\ ret = [op |-> "none"]

\* a dictionary on which insert and the queries are called directly
InitDict == pc = "dict" /\ Idle

\* an input for the tokenizer, assembled piece by piece
InitLex == pc = "build" /\ Idle

\* a document for parse_msg or parse_cp1251_file, assembled line by line
InitParse == pc = "build" /\ Idle

AppendPiece(p) ==
    /\ pc = "build"
    /\ npieces < MaxPieces
    /\ input' = input \o p
    /\ npieces' = npieces + 1
    /\ UNCHANGED <<conv, pc, tok, pos, dict, calls, panic, converted, result, ret>>

AppendLine(l) ==
    /\ pc = "build"
    /\ npieces < MaxLines
    /\ input' = IF npieces = 0 THEN l ELSE input \o <<C("\n")>> \o l
    /\ npieces' = npieces + 1
    /\ UNCHANGED <<conv, pc, tok, pos, dict, calls, panic, converted, result, ret>>

\* tokenize_msg(input, exhaustive)
Tokenize(exhaustive) ==
    /\ pc = "build"
    /\ pc' = "lexed"
    /\ ret' = [op |-> "tokenize_msg", exhaustive |-> exhaustive,
               val |-> tokenize_msg(input, exhaustive)]
    /\ UNCHANGED <<input, npieces, conv, tok, pos, dict, calls, panic,
                   converted, result>>

\* tests::with_all_entry_impls: the three entry parsers on the same input
LexEntry ==
    /\ pc = "build"
    /\ pc' = "lexed"
    /\ ret' = [op |-> "entry",
               tuple |-> _entry_with_tuple(input),
               macro |-> _entry_with_macro(input),
               apply |-> entry_with_apply(input)]
    /\ UNCHANGED <<input, npieces, conv, tok, pos, dict, calls, panic,
                   converted, result>>

\* parse_msg or parse_cp1251_file calls parse_msg_ext with its converter;
\* parse_msg_ext up to the loop: tokenize exhaustively, `?`, new dictionary
ParseStart(entry_point) ==
    /\ pc = "build"
    /\ conv' = entry_point
    /\ LET r == tokenize_msg(input, TRUE) IN
       /\ tok' = Some(r)
       /\ IF r.ok
          THEN /\ pc' = "loop"
               /\ pos' = 1
               /\ dict' = new
               /\ result' = result
          ELSE /\ pc' = "done"
               /\ result' = Some(RErr(r.e))
               /\ UNCHANGED <<pos, dict>>
    /\ UNCHANGED <<input, npieces, calls, panic, converted, ret>>

\* one iteration of `for line in msg.lines`
ParseLine ==
    /\ pc = "loop"
    /\ pos <= Len(tok.v.v)
    /\ LET l == tok.v.v[pos] IN
       IF l.t = "Entry"
       THEN IF Len(l.entry.secondary) # 0
            THEN /\ panic' = "secondary"
                 /\ pc' = "done"
                 /\ UNCHANGED <<pos, dict, calls, converted>>
            ELSE LET value == line_converter(conv, l.entry.value)
                     r == insert(dict, l.entry.index, value)
                 IN  /\ converted' = Append(converted, l.entry.value)
                     /\ dict' = r.dict
                     /\ calls' = [calls EXCEPT ![l.entry.index] = @ + 1]
                     /\ IF r.old # None
                        THEN panic' = "assert" /\ pc' = "done" /\ pos' = pos
                        ELSE panic' = panic /\ pc' = pc /\ pos' = pos + 1
       ELSE /\ pos' = pos + 1
            /\ UNCHANGED <<pc, dict, calls, panic, converted>>
    /\ UNCHANGED <<input, npieces, conv, tok, result, ret>>

\* Ok(dict)
ParseReturn ==
    /\ pc = "loop"
    /\ pos > Len(tok.v.v)
    /\ pc' = "done"
    /\ result' = Some(ROk("dict"))
    /\ UNCHANGED <<input, npieces, conv, tok, pos, dict, calls, panic,
                   converted, ret>>

\* MsgDictionary::insert called directly
Insert(index, value) ==
    /\ pc = "dict"
    /\ panic = "none"
    /\ Len(converted) < MaxInserts
    /\ LET r == insert(dict, index, value) IN
       /\ dict' = r.dict
       /\ calls' = [calls EXCEPT ![index] = @ + 1]
       /\ panic' = IF r.old # None THEN "assert" ELSE "none"
       /\ ret' = [op |-> "insert", index |-> index, sub_index |-> r.sub_index,
                  old |-> r.old]
    /\ converted' = Append(converted, value.data)
    /\ UNCHANGED <<input, npieces, conv, pc, tok, pos, result>>

\* the dictionary is used directly and no call has panicked
Queryable == pc = "dict" /\ panic = "none"

GetFirstString(index) ==
    /\ Queryable
    /\ ret' = [op |-> "get_first_string", index |-> index,
               val |-> get_first_string(dict, index)]
    /\ UNCHANGED <<input, npieces, conv, pc, tok, pos, dict, calls, panic,
                   converted, result>>

GetFirstBytes(index) ==
    /\ Queryable
    /\ ret' = [op |-> "get_first_bytes", index |-> index,
               val |-> get_first_bytes(dict, index)]
    /\ UNCHANGED <<input, npieces, conv, pc, tok, pos, dict, calls, panic,
                   converted, result>>

GetAllStrings(index) ==
    /\ Queryable
    /\ ret' = [op |-> "get_all_strings", index |-> index,
               val |-> get_all_strings(dict, index)]
    /\ UNCHANGED <<input, npieces, conv, pc, tok, pos, dict, calls, panic,
                   converted, result>>

IterFirstStrings ==
    /\ Queryable
    /\ ret' = [op |-> "iter_first_strings", val |-> iter_first_strings(dict)]
    /\ UNCHANGED <<input, npieces, conv, pc, tok, pos, dict, calls, panic,
                   converted, result>>

NextDict ==
    \/ \E index \in DictIndices, value \in DictValues : Insert(index, value)
    \/ \E index \in DictIndices : GetFirstString(index)
    \/ \E index \in DictIndices : GetFirstBytes(index)
    \/ \E index \in DictIndices : GetAllStrings(index)
    \/ IterFirstStrings

NextLex ==
    \/ \E p \in Pieces : AppendPiece(p)
    \/ \E exhaustive \in BOOLEAN : Tokenize(exhaustive)
    \/ LexEntry

NextParse ==
    \/ \E l \in Lines : AppendLine(l)
    \/ \E exhaustive \in BOOLEAN : Tokenize(exhaustive)
    \/ \E entry_point \in {"parse_msg", "parse_cp1251_file"} : ParseStart(entry_point)
    \/ ParseLine
    \/ ParseReturn

SpecDict == InitDict /\ [][NextDict]_vars

SpecLex == InitLex /\ [][NextLex]_vars

SpecParse == InitParse /\ [][NextParse]_vars

\* ================================================================ claims
\* the Entry lines of a Document, in document order
EntriesOf(lines) == SelectSeq(lines, LAMBDA l : l.t = "Entry")

\* the sub-index document order gives the k-th entry: the number of earlier
\* entries with the same primary index
OrdinalOf(es, k) == Cardinality({m \in 1..(k - 1) : es[m].entry.index = es[k].entry.index})

\* parse_msg_ext returned Ok(dict)
ReturnedDict == pc = "done" /\ result = Some(ROk("dict"))

\* the sub-indices stored for a primary index
SubIndices(d, p) == {k[2] : k \in {q \in DOMAIN d : q[1] = p}}

C2_Contiguous == \A p \in U32 : SubIndices(dict, p) = 0..(calls[p] - 1)

\* an insert call with index p adds the key (p, 0) or (p, greatest + 1) and
\* leaves the slots of the other indices as they were
C2_InsertStep ==
    \A p \in U32 :
        calls'[p] = calls[p] + 1 =>
            LET had == SubIndices(dict, p)
                greatest == CHOOSE g \in had : \A o \in had : o <= g
                used == IF had = {} THEN 0 ELSE greatest + 1
            IN  /\ DOMAIN dict' = DOMAIN dict \cup {<<p, used>>}
                /\ \A k \in DOMAIN dict : k[1] # p => dict'[k] = dict[k]

\* C2: after any sequence of insert calls the sub-indices stored for each
\* primary index p are exactly 0..n-1, n the number of insert calls made with
\* p; each insert uses 0 when p has no slot and the greatest existing sub-index
\* of p plus one otherwise, and leaves the slots of other indices alone.
C2_Claim == []C2_Contiguous /\ [][C2_InsertStep]_vars

\* C3: every insert writes a key that was absent before the call: no value is
\* replaced and assert_eq!(old, None) never fails.
C3_Claim == panic # "assert" /\ (ret.op = "insert" => ret.old = None)

\* what the document grammar left unconsumed, <<>> when it failed
C4_Leftover == CHOOSE x \in {IF r.kind = "Ok" THEN r.rest ELSE <<>> : r \in {msg(input)}} : TRUE

\* C4: when the grammar stops before the end of the input, tokenize_msg with
\* exhaustive = true returns an error carrying the first min(20, remaining
\* length) elements of the unconsumed input, with exhaustive = false it returns
\* Ok with the lines parsed before the stop; parse_msg_ext tokenizes with
\* exhaustive = true, so it returns that error and builds no dictionary.
C4_ExhaustiveError ==
    (ret.op = "tokenize_msg" \/ tok # None) =>
        LET rest == C4_Leftover
            n == IF Len(rest) < 20 THEN Len(rest) ELSE 20
        IN  Len(rest) > 0 =>
                /\ (ret.op = "tokenize_msg" /\ ret.exhaustive) =>
                       /\ ~ret.val.ok
                       /\ ret.val.e.what = "exhaust"
                       /\ ret.val.e.tail = [k \in 1..n |-> rest[k]]
                /\ (ret.op = "tokenize_msg" /\ ~ret.exhaustive) =>
                       /\ ret.val.ok
                       /\ ret.val.v = msg(input).out
                /\ tok # None =>
                       /\ pc = "done"
                       /\ ~result.v.ok
                       /\ result.v.e.what = "exhaust"
                       /\ result.v.e.tail = [k \in 1..n |-> rest[k]]
                       /\ dict = new
                       /\ panic = "none"

\* C4 witness: exhaustive tokenizing failed on more than 20 unconsumed
\* elements, of which the error carries 20
C4_Witness ==
    /\ ret.op = "tokenize_msg"
    /\ ret.exhaustive
    /\ ~ret.val.ok
    /\ ret.val.e.what = "exhaust"
    /\ Len(ret.val.e.tail) = 20
    /\ Len(C4_Leftover) > 20

\* C5: where a line starts with '{' and a numeric index (after optional
\* blanks), every failure of the rest of the entry makes tokenizing fail with
\* a parse error in both modes, the line is never classified as Break; where
\* no '{' follows the blanks, a line that is no comment is a Break.
C5_Claim ==
    ret.op = "tokenize_msg" =>
        LET i == space0(input).rest
            opened == Len(i) > 0 /\ i[1] = C("{")
            indexed == opened /\ unsigned_number(Tail(i)).kind = "Ok"
        IN  /\ (indexed /\ _entry_with_tuple(i).kind # "Ok") =>
                   /\ line(input).kind = "Failure"
                   /\ ret.val = RErr([what |-> "parse"])
            /\ (~opened /\ comment(input).kind # "Ok") =>
                   line(input) = POk(i, LineBreak)

\* the lines of the Document whose entry has a non-empty secondary field
C6_Offending ==
    {k \in 1..Len(tok.v.v) :
        tok.v.v[k].t = "Entry" /\ Len(tok.v.v[k].entry.secondary) # 0}

\* C6: for a tokenized input with an entry whose secondary field is not empty,
\* parse_msg_ext returns nothing and ends in the panic of the first such
\* entry, with the entries before it inserted and line_converter not called on
\* it; without such an entry that panic never happens.
C6_Claim ==
    (tok # None /\ tok.v.ok) =>
        IF C6_Offending = {}
        THEN panic # "secondary"
        ELSE LET first == CHOOSE k \in C6_Offending : \A o \in C6_Offending : k <= o
                 earlier == EntriesOf(SubSeq(tok.v.v, 1, first - 1))
             IN  /\ result = None
                 /\ pc = "done" =>
                        /\ panic = "secondary"
                        /\ pos = first
                        /\ Cardinality(DOMAIN dict) = Len(earlier)
                        /\ converted = [k \in 1..Len(earlier) |-> earlier[k].entry.value]

\* what the two first-slot queries have to answer, read off the map
C7_Answers ==
    /\ ret.op = "get_first_bytes" =>
           ret.val = IF <<ret.index, 0>> \in DOMAIN dict
                     THEN Some(dict[<<ret.index, 0>>].data)
                     ELSE None
    /\ ret.op = "get_first_string" =>
           ret.val = IF /\ <<ret.index, 0>> \in DOMAIN dict
                        /\ dict[<<ret.index, 0>>].variant = "String"
                     THEN Some(dict[<<ret.index, 0>>].data)
                     ELSE None

\* a step that delivers the answer of one of the two queries
C7_QueryStep ==
    /\ ret' # ret
    /\ ret'.op \in {"get_first_bytes", "get_first_string"}

\* C7: get_first_bytes(p) is the stored bytes of slot (p, 0) in either variant
\* and absent without the slot; get_first_string(p) is the text of slot (p, 0)
\* when it holds the text variant and absent otherwise; other slots play no
\* part, and neither query changes the dictionary.
C7_FirstSlotQueries == []C7_Answers /\ [][C7_QueryStep => dict' = dict]_vars

\* C7 witness: get_first_string answered absent for an index whose slot 0 is
\* byte-only while its slot 1 holds text
C7_Witness ==
    /\ ret.op = "get_first_string"
    /\ ret.val = None
    /\ <<ret.index, 0>> \in DOMAIN dict
    /\ dict[<<ret.index, 0>>].variant = "Bytes"
    /\ <<ret.index, 1>> \in DOMAIN dict
    /\ dict[<<ret.index, 1>>].variant = "String"

\* the pairs (sub_index, text) of the text slots of p from sub-index n on, by
\* ascending sub-index
RECURSIVE C8_TextSlots(_, _, _)
C8_TextSlots(d, p, n) ==
    IF n > U32_MAX THEN <<>>
    ELSE (IF <<p, n>> \in DOMAIN d /\ d[<<p, n>>].variant = "String"
          THEN <<(<<n, d[<<p, n>>].data>>)>>
          ELSE <<>>) \o C8_TextSlots(d, p, n + 1)

\* C8: get_all_strings(p) yields exactly the pairs (sub_index, text) of the
\* text slots stored under p, for every sub-index from 0 to u32::MAX
\* included, in ascending order, and nothing else.
C8_Claim ==
    ret.op = "get_all_strings" => ret.val = C8_TextSlots(dict, ret.index, 0)

\* C9: with the converter of parse_cp1251_file a value whose decoding reports
\* no errors is stored as the decoded text, a value whose decoding reports
\* errors as its raw bytes; get_first_string gives the decoded text of a
\* cleanly decodable first value.
C9_Claim ==
    (ReturnedDict /\ conv = "parse_cp1251_file") =>
        LET es == EntriesOf(tok.v.v) IN
        \A k \in 1..Len(es) :
            LET key == <<es[k].entry.index, OrdinalOf(es, k)>>
                d == decode(es[k].entry.value)
            IN  /\ key \in DOMAIN dict
                /\ dict[key] = IF d.had_errors THEN MsgBytes(es[k].entry.value)
                               ELSE MsgString(d.cow)
                /\ (key[2] = 0 /\ ~d.had_errors) =>
                       get_first_string(dict, key[1]) = Some(d.cow)

\* the position of the first c in s at or after from, 0 when there is none
C10_Find(s, c, from) ==
    LET at == {k \in from..Len(s) : s[k] = c} IN
    IF at = {} THEN 0 ELSE CHOOSE k \in at : \A o \in at : k <= o

\* the number of leading spaces and tabs of s
C10_Blanks(s) ==
    LET stop == {k \in 1..Len(s) : s[k] # C(" ") /\ s[k] # C("\t")} IN
    IF stop = {} THEN Len(s) ELSE (CHOOSE k \in stop : \A o \in stop : k <= o) - 1

\* the end of the physical line that s starts
C10_LineEnd(s) ==
    LET stop == {k \in 1..Len(s) : s[k] = C("\n") \/ s[k] = C("\r")} IN
    IF stop = {} THEN Len(s) ELSE (CHOOSE k \in stop : \A o \in stop : k <= o) - 1

\* what an entry parser has to return on a well-formed entry, read off the
\* input by the positions of its braces: [wf |-> FALSE] when the input does
\* not start with a well-formed entry
C10_Expected(i) ==
    LET k1 == C10_Find(i, C("}"), 1)
        k2 == C10_Find(i, C("}"), k1 + 1)
        k3 == C10_Find(i, C("}"), k2 + 1)
        digits == SubSeq(i, 2, k1 - 1)
        wf == /\ Len(i) > 0 /\ i[1] = C("{")
              /\ k1 > 2
              /\ \A k \in 1..Len(digits) : digits[k] \in 48..57
              /\ DecimalValue(digits, 0) <= U32_MAX
              /\ k1 < Len(i) /\ i[k1 + 1] = C("{")
              /\ k2 > 0
              /\ k2 < Len(i) /\ i[k2 + 1] = C("{")
              /\ k3 > 0
        after == SubSeq(i, k3 + 1, Len(i))
        c == SubSeq(after, C10_Blanks(after) + 1, Len(after))
        opener == IF Len(c) >= 1 /\ c[1] = C("#") THEN 1
                  ELSE IF Len(c) >= 2 /\ c[1] = C("/") /\ c[2] = C("/") THEN 2
                  ELSE 0
        body == SubSeq(c, opener + 1, Len(c))
        text == SubSeq(body, C10_Blanks(body) + 1, Len(body))
        n == C10_LineEnd(text)
    IN  IF ~wf THEN [wf |-> FALSE]
        ELSE [wf |-> TRUE,
              rest |-> IF opener = 0 THEN after ELSE SubSeq(text, n + 1, Len(text)),
              entry |-> [index |-> DecimalValue(digits, 0),
                         secondary |-> SubSeq(i, k1 + 2, k2 - 1),
                         value |-> SubSeq(i, k2 + 2, k3 - 1),
                         comment |-> IF opener = 0 THEN None
                                     ELSE Some(SubSeq(text, 1, n))]]

\* C10: on an input that starts with a well-formed entry the three entry
\* parsers succeed with the same Entry (the index, the exact text between the
\* braces of the two fields, the comment) and the same remaining input.
C10_EntryParsersAgree ==
    ret.op = "entry" =>
        LET e == C10_Expected(input) IN
        e.wf =>
            /\ ret.tuple = POk(e.rest, e.entry)
            /\ ret.macro = POk(e.rest, e.entry)
            /\ ret.apply = POk(e.rest, e.entry)

\* C10 witness: the three parsers ran on a well-formed entry with the
\* greatest index and a trailing comment
C10_Witness ==
    /\ ret.op = "entry"
    /\ C10_Expected(input).wf
    /\ ret.apply.kind = "Ok"
    /\ ret.apply.out.index = U32_MAX
    /\ ret.apply.out.comment.some

====
